---- MODULE Spec2Model ----
(***************************************************************************)
(* The insight worker: the dispatcher (InsightWorker.process_message) and  *)
(* the six stage handlers of src/insight_worker/worker.py, with the        *)
(* relational rows (inodes, pages), the object store, the search index and *)
(* the broker queue they act on.                                           *)
(*                                                                         *)
(* One delivery is one step: the dispatcher takes the head of the queue,   *)
(* runs the handler of its routing key to completion and settles the       *)
(* delivery (prefetch is 1, worker.py:360).  A handler is an operator from *)
(* the current stores and the set F of external calls that fail during the *)
(* run to the stores it leaves, the messages it publishes, the calls it    *)
(* made (its trace) and whether it raised.  The broker publish and the     *)
(* database commit themselves are taken to succeed.                        *)
(***************************************************************************)
EXTENDS Integers, Sequences, FiniteSets, TLC

VARIABLES
    inodes,     \* id -> row of table inodes, or NoRow once the row is deleted
    canon,      \* id -> the path the database function inode_path(id) returns
    pages,      \* the rows of table pages
    objects,    \* object key -> object, for the keys that exist in the bucket
    search,     \* document id -> document of index "inodes"
    queue,      \* the deliveries waiting in the worker's queue, oldest first
    produced,   \* number of messages the outside producers have published
    embedded,   \* history: the inodes embedded with success and not ingested since
    notified,   \* history: id -> notifications published since its latest ingest
    ingested,   \* history: id -> what its latest ingest run read, when no call failed
    last,       \* the record of the latest delivery the dispatcher processed
    probe,      \* an owner and a path, and the object keys computed for them
    ms,         \* a MessageService: its connection, its channel, what it published
    idx,        \* the index "inodes" of the search store and the requests made on it
    race,       \* several workers on one queue: one file inode, its objects, its
                \* search document, the queue and each worker's position
    emb         \* one embed run, batch by batch: its session and what is stored

\* the state of the worker and of the stores it acts on
worker == <<inodes, canon, pages, objects, search, queue, produced, embedded,
            notified, ingested, last>>

\* the state of the components that are exercised on their own
aux == <<probe, ms, idx, race, emb>>

vars == <<worker, aux>>

(***************************************************************************)
(* Bounds of the model.                                                    *)
(***************************************************************************)
MaxProduced == 1    \* messages published by producers outside the worker
MaxPages == 2       \* pages of an uploaded PDF
MaxFrom == 1        \* largest from_page of the page window

(***************************************************************************)
(* Values                                                                  *)
(***************************************************************************)
Ids == {1, 2}
Owner == "U"
NoRow == [exists |-> FALSE]
NoError == "null"
NoEmbedding == <<>>
ToPageNone == -1
BatchSize == 64
ValidKeys == {"ingest_inode", "embed_inode", "index_inode", "move_inode",
              "share_inode", "delete_inode"}
AfterKeys == ValidKeys \ {"delete_inode"}

Max(S) == CHOOSE x \in S : \A y \in S : y <= x

\* Text is a sequence of characters; NUL is the byte \x00.
NUL == "\\x00"
Texts == {<<>>, <<NUL, "a">>}

\* text.replace("\x00", "")
RECURSIVE StripNul(_)
StripNul(t) ==
    IF t = <<>> THEN <<>>
    ELSE IF Head(t) = NUL THEN StripNul(Tail(t))
    ELSE <<Head(t)>> \o StripNul(Tail(t))

\* The embedding provider: a deterministic map from text to a vector.
Vector(text) == <<"vec">> \o text

(***************************************************************************)
(* Paths and object keys.  A path is a sequence of characters.             *)
(***************************************************************************)
PathFileA == <<"/", "d", "/", "x", ".", "p">>
PathFileB == <<"/", "e", "/", "x", ".", "p">>
PathFileC == <<"/", "d", "/", "x", "_optimized", ".", "p">>
PathDirA == <<"/", "d">>
PathDirB == <<"/", "e">>

\* str(Path(path).parent)
RECURSIVE Parent(_)
Parent(p) ==
    IF Len(p) <= 1 THEN <<"/">>
    ELSE IF p[Len(p)] = "/"
         THEN (IF Len(p) = 1 THEN <<"/">> ELSE SubSeq(p, 1, Len(p) - 1))
         ELSE Parent(SubSeq(p, 1, Len(p) - 1))

\* the last segment of the path: the inode's name
RECURSIVE Filename(_)
Filename(p) ==
    IF p = <<>> \/ p[Len(p)] = "/" THEN <<>>
    ELSE Filename(SubSeq(p, 1, Len(p) - 1)) \o <<p[Len(p)]>>

object_path(owner_id, path) == <<"users/", owner_id>> \o path

IsNameChar(c) == c # "/" /\ c # "."

\* last position of the longest run of [^/.] that starts at position a
RunEnd(p, a) ==
    CHOOSE j \in (a - 1)..Len(p) :
        /\ \A x \in a..j : IsNameChar(p[x])
        /\ (j = Len(p) \/ ~IsNameChar(p[j + 1]))

\* (.+) = p[1..k], (/[^/.]+) = p[k+1..RunEnd], (\..+)$ = the rest
MatchAt(p, k) ==
    /\ k >= 1
    /\ k + 1 <= Len(p)
    /\ p[k + 1] = "/"
    /\ LET j == RunEnd(p, k + 2)
       IN  j >= k + 2 /\ j + 2 <= Len(p) /\ p[j + 1] = "."

\* re.sub(r"(.+)(/[^/.]+)(\..+)$", r"\1\2_optimized\3", path)
optimized_path(p) ==
    LET K == {k \in 1..Len(p) : MatchAt(p, k)}
    IN  IF K = {} THEN p
        ELSE LET j == RunEnd(p, Max(K) + 2)
             IN  SubSeq(p, 1, j) \o <<"_optimized">> \o SubSeq(p, j + 1, Len(p))

optimized_object_path(owner_id, path) == <<"users/", owner_id>> \o optimized_path(path)

(***************************************************************************)
(* Stores                                                                  *)
(***************************************************************************)
HasRow(id) == id \in Ids /\ inodes[id].exists

\* is_ready is a computed column of the row
is_ready(row) ==
    row.is_indexed /\ row.is_uploaded /\ row.is_ingested /\ row.is_embedded

PagesOf(pgs, id) == {p \in pgs : p.inode_id = id}

\* INSERT ... ON CONFLICT (inode_id, index) DO UPDATE SET contents = excluded.contents
UpsertPage(pgs, v) ==
    IF \E p \in pgs : p.inode_id = v.inode_id /\ p.index = v.index
    THEN {IF p.inode_id = v.inode_id /\ p.index = v.index
          THEN [p EXCEPT !.contents = v.contents] ELSE p : p \in pgs}
    ELSE pgs \cup {[inode_id |-> v.inode_id, index |-> v.index,
                    contents |-> v.contents, embedding |-> NoEmbedding]}

RECURSIVE UpsertPages(_, _)
UpsertPages(pgs, vals) ==
    IF vals = <<>> THEN pgs
    ELSE UpsertPages(UpsertPage(pgs, Head(vals)), Tail(vals))

Put(f, k, v) == [x \in DOMAIN f \cup {k} |-> IF x = k THEN v ELSE f[x]]
Drop(f, K) == [x \in DOMAIN f \ K |-> f[x]]

NoTag == "none"
TagOf(b) == IF b THEN "True" ELSE "False"

\* the content of an uploaded object
Content(mime, damage, texts) ==
    [mime |-> mime, damage |-> damage, texts |-> texts, optimized |-> FALSE]

\* what OCRmyPDF writes for a repaired PDF
Optimized(c) == [c EXCEPT !.optimized = TRUE]

Object(content, tag) == [content |-> content, is_public |-> tag]

(***************************************************************************)
(* Messages                                                                *)
(***************************************************************************)
After(id) == [kind |-> "after", id |-> id]
Before(id, row) ==
    [kind |-> "before", id |-> id, owner_id |-> row.owner_id,
     path |-> row.path, type |-> row.type]
Garbage == [kind |-> "garbage"]

Task(key, body) == [key |-> key, body |-> body]

Notification_private(row, id, task) ==
    [exchange |-> "user", routing_key |-> <<"user-", row.owner_id>>,
     id |-> id, task |-> task]

\* a message on the user exchange
Notification(row, id, task) ==
    [exchange |-> "user",
     routing_key |-> IF row.is_public THEN <<"public">> ELSE <<"user-", row.owner_id>>,
     id |-> id, task |-> task]

\* what a handler run leaves behind
Res(i, p, o, s, out, notes, trace, raised) ==
    [inodes |-> i, pages |-> p, objects |-> o, search |-> s,
     out |-> out, notes |-> notes, trace |-> trace, raised |-> raised]

Raise(trace) == Res(inodes, pages, objects, search, <<>>, <<>>, trace, TRUE)

NotifyAlways(row, id, task) == <<Notification(row, id, task)>>

\* if inode.is_ready or inode.error: publish to the user exchange
NotifyIfTerminal(row, id, task) ==
    IF is_ready(row) \/ row.error # NoError
    THEN <<Notification(row, id, task)>> ELSE <<>>

(***************************************************************************)
(* Ingest                                                                  *)
(***************************************************************************)
HasChannel == TRUE   \* self.channel is set once the worker consumes

\* Process(...).start(); process.join(): the exit code of the child is not
\* read, so a crashed child shows only as a missing output file
optimize_pdf_output(orig) ==
    IF orig.damage = "ocr_crash" THEN <<>> ELSE <<Optimized(orig)>>

page_values_appended(inode, page_texts) ==
    [i \in 1..Len(page_texts) |->
        [contents |-> StripNul(page_texts[i]),
         index |-> inode.from_page + (i - 1) + Cardinality(PagesOf(pages, inode.id)),
         inode_id |-> inode.id]]

\* page_values of the run
page_values(inode, page_texts) ==
    [i \in 1..Len(page_texts) |->
        [contents |-> StripNul(page_texts[i]),
         index |-> inode.from_page + (i - 1),
         inode_id |-> inode.id]]

\* The body of the try block: the exception that left it ("none" when it ran
\* to its end), and what it did before.
Body(to_page, exc, objs, pgs, trace) ==
    [to_page |-> to_page, exc |-> exc, objects |-> objs, pages |-> pgs, trace |-> trace]

ingest_store(inode, orig, to_page, F, t) ==
    LET optkey == optimized_object_path(inode.owner_id, inode.path)
        okey == object_path(inode.owner_id, inode.path)
        made == optimize_pdf_output(orig)
        t1 == Append(t, "upload_optimized_file")
    IN  IF "upload" \in F \/ made = <<>>
        THEN Body(to_page, "other", objects, pages, t1)
        ELSE
        LET up == Put(objects, optkey, Object(made[1], NoTag))
            t2 == IF inode.is_public THEN Append(t1, "set_public_tags") ELSE t1
            tagFails == inode.is_public /\ ("tags" \in F \/ okey \notin DOMAIN up)
            tagged == IF inode.is_public
                      THEN [k \in DOMAIN up |->
                              IF k \in {okey, optkey}
                              THEN [up[k] EXCEPT !.is_public = TagOf(inode.is_public)]
                              ELSE up[k]]
                      ELSE up
            t3 == Append(t2, "extract_pdf_pages_text")
            t4 == Append(t3, "upsert_pages")
        IN  IF tagFails THEN Body(to_page, "other", up, pages, t2)
            ELSE IF "extract" \in F THEN Body(to_page, "other", tagged, pages, t3)
            ELSE IF "upsert" \in F THEN Body(to_page, "other", tagged, pages, t4)
            ELSE Body(to_page, "none", tagged,
                      UpsertPages(pages, page_values(inode, made[1].texts)), t4)

validate_pdf_mime_type_any(orig) == TRUE

\* magic.from_file(path, mime=True) == "application/pdf"
validate_pdf_mime_type(orig) == orig.mime = "application/pdf"

\* except PdfError: raise IngestException("corrupted_file")
except_PdfError == "corrupted_file"

except_repair_unmapped == "other"

\* except Exception: raise IngestException("corrupted_file")
except_repair == "corrupted_file"

ingest_try(inode, orig, F) ==
    LET t1 == <<"validate_pdf_mime_type">>
        count == inode.to_page = ToPageNone \/ inode.to_page = 0
        t2 == IF count THEN Append(t1, "get_pdf_page_count") ELSE t1
        to_page == IF count THEN Len(orig.texts) ELSE inode.to_page
        t3 == Append(t2, "repair_pdf")
        t4 == Append(t3, "optimize_pdf")
    IN  IF ~validate_pdf_mime_type(orig)
        THEN Body(inode.to_page, "unsupported_file_type", objects, pages, t1)
        ELSE IF count /\ orig.damage = "unreadable"
        THEN Body(inode.to_page, except_PdfError, objects, pages, t2)
        ELSE IF orig.damage \in {"unreadable", "unrepairable"}
        THEN Body(to_page, except_repair, objects, pages, t3)
        ELSE IF "optimize" \in F
        THEN Body(to_page, except_repair, objects, pages, t4)
        ELSE ingest_store(inode, orig, to_page, F, t4)

\* after ingest: the follow-up task events
ingest_followups(id) == <<Task("embed_inode", After(id))>>

ingest_error_reset(inode, b) ==
    IF b.exc \in {"unsupported_file_type", "corrupted_file"} THEN b.exc ELSE NoError

\* except IngestException as e: inode.error = str(e); no other assignment
ingest_error(inode, b) ==
    IF b.exc \in {"unsupported_file_type", "corrupted_file"} THEN b.exc
    ELSE inode.error

ingest_finally_on_success(inode, b) ==
    [inode EXCEPT
        !.to_page = b.to_page,
        !.error = ingest_error(inode, b),
        !.is_ingested = IF b.exc = "other" THEN @ ELSE TRUE]

\* except IngestException as e: inode.error = str(e); finally: is_ingested = True
ingest_finally(inode, b) ==
    [inode EXCEPT
        !.to_page = b.to_page,
        !.error = ingest_error(inode, b),
        !.is_ingested = TRUE]

ingest_inode(id, F) ==
    IF ~HasRow(id) THEN Raise(<<"select_inode">>)
    ELSE
    LET inode == inodes[id]
        okey == object_path(inode.owner_id, inode.path)
    IN  IF "download" \in F \/ okey \notin DOMAIN objects
        THEN Raise(<<"select_inode", "download_file">>)
        ELSE
        LET b == ingest_try(inode, objects[okey].content, F)
            row == ingest_finally(inode, b)
            t == <<"select_inode", "download_file">> \o b.trace \o <<"commit">>
        IN  Res([inodes EXCEPT ![id] = row], b.pages, b.objects, search,
                IF HasChannel THEN ingest_followups(id) ELSE <<>>,
                IF HasChannel THEN NotifyIfTerminal(row, id, "ingest_inode") ELSE <<>>,
                t, FALSE)

(***************************************************************************)
(* Embed                                                                   *)
(***************************************************************************)
embed_selection_all(inode) ==
    {p \in pages :
        /\ p.index >= inode.from_page
        /\ p.index < inode.to_page
        /\ Len(p.contents) > 0
        /\ p.inode_id = inode.id}

\* the pages the embed handler selects
embed_selection(inode) ==
    {p \in pages :
        /\ p.index >= inode.from_page
        /\ p.index < inode.to_page
        /\ p.embedding = NoEmbedding
        /\ Len(p.contents) > 0
        /\ p.inode_id = inode.id}

\* embed(): one request to the provider per batch of 64 strings
embed_requests(n) ==
    [i \in 1..((n + BatchSize - 1) \div BatchSize) |-> "embeddings_request"]

embed_guard_off(inode) == FALSE

\* if inode.error is not None: raise Exception("Cannot embed errored file")
embed_guard(inode) == inode.error # NoError

embed_followups_twice(id) ==
    <<Task("index_inode", After(id)), Task("index_inode", After(id))>>

\* after embed: the follow-up task event
embed_followups(id) == <<Task("index_inode", After(id))>>

embed_inode(id, F) ==
    IF ~HasRow(id) THEN Raise(<<"select_inode">>)
    ELSE
    LET inode == inodes[id]
    IN  IF embed_guard(inode) THEN Raise(<<"select_inode">>)
        ELSE
        LET sel == embed_selection(inode)
            t1 == <<"select_inode", "select_pages">>
        IN  IF sel # {} /\ "embed" \in F
            THEN Raise(Append(t1, "embeddings_request"))
            ELSE
            LET pgs == {IF p \in sel THEN [p EXCEPT !.embedding = Vector(p.contents)]
                        ELSE p : p \in pages}
                row == [inode EXCEPT !.is_embedded = TRUE]
                t == t1 \o embed_requests(Cardinality(sel)) \o <<"commit">>
            IN  Res([inodes EXCEPT ![id] = row], pgs, objects, search,
                    IF HasChannel THEN embed_followups(id) ELSE <<>>,
                    IF HasChannel THEN NotifyIfTerminal(row, id, "embed_inode") ELSE <<>>,
                    t, FALSE)

(***************************************************************************)
(* Index                                                                   *)
(***************************************************************************)
ParentDocId(id) == <<id>>
PageDocId(id, index) == <<id, index>>

parent_document(inode) ==
    [id |-> inode.id, path |-> inode.path, type |-> inode.type,
     folder |-> Parent(inode.path), filename |-> inode.name,
     owner_id |-> inode.owner_id, is_public |-> inode.is_public,
     readable_by |-> <<inode.owner_id>>, join |-> <<"inode">>]

page_document(inode, page) ==
    [owner_id |-> inode.owner_id, is_public |-> inode.is_public,
     readable_by |-> <<inode.owner_id>>, index |-> page.index - inode.from_page,
     contents |-> page.contents, embedding |-> page.embedding,
     join |-> <<"page", inode.id>>]

\* the pages the index handler selects, by ascending index
index_selection(inode) ==
    {p \in pages : Len(p.contents) > 0 /\ p.inode_id = inode.id}

RECURSIVE ByIndex(_)
ByIndex(S) ==
    IF S = {} THEN <<>>
    ELSE LET p == CHOOSE x \in S : \A y \in S : x.index <= y.index
         IN  <<p>> \o ByIndex(S \ {p})

index_pages_swallow(inode, ps, docs, trace, F) ==
    [search |-> docs, trace |-> trace, raised |-> FALSE]

\* the loop over the pages: page.embedding.tolist() raises on a null embedding
\* and a rejected index_document request raises
RECURSIVE index_pages(_, _, _, _, _)
index_pages(inode, ps, docs, trace, F) ==
    IF ps = <<>> THEN [search |-> docs, trace |-> trace, raised |-> FALSE]
    ELSE IF Head(ps).embedding = NoEmbedding
    THEN [search |-> docs, trace |-> trace, raised |-> TRUE]
    ELSE IF "search_page" \in F
    THEN [search |-> docs, trace |-> Append(trace, "index_document"), raised |-> TRUE]
    ELSE index_pages(inode, Tail(ps),
                     Put(docs, PageDocId(inode.id, Head(ps).index),
                         page_document(inode, Head(ps))),
                     Append(trace, "index_document"), F)

index_inode(id, F) ==
    IF ~HasRow(id) THEN Raise(<<"select_inode">>)
    ELSE
    LET inode == inodes[id]
        t1 == <<"select_inode", "select_pages", "index_document">>
    IN  IF "search" \in F THEN Raise(t1)
        ELSE
        LET r == index_pages(inode, ByIndex(index_selection(inode)),
                             Put(search, ParentDocId(id), parent_document(inode)), t1, F)
            row == [inode EXCEPT !.is_indexed = TRUE]
        IN  IF r.raised
            THEN Res(inodes, pages, objects, r.search, <<>>, <<>>, r.trace, TRUE)
            ELSE Res([inodes EXCEPT ![id] = row], pages, objects, r.search, <<>>,
                     IF HasChannel THEN NotifyIfTerminal(row, id, "index_inode") ELSE <<>>,
                     Append(r.trace, "commit"), FALSE)

(***************************************************************************)
(* Move, share, delete                                                     *)
(***************************************************************************)
\* MinioService.move_file: copy then remove, the original first
RECURSIVE move_objects(_, _, _, _)
move_objects(objs, pairs, F, trace) ==
    IF pairs = <<>> THEN [objects |-> objs, trace |-> trace, raised |-> FALSE]
    ELSE
    LET old == Head(pairs)[1]
        new == Head(pairs)[2]
        t1 == Append(trace, "copy_object")
        t2 == Append(t1, "remove_object")
    IN  IF "copy" \in F \/ old \notin DOMAIN objs
        THEN [objects |-> objs, trace |-> t1, raised |-> TRUE]
        ELSE IF "remove" \in F
        THEN [objects |-> Put(objs, new, objs[old]), trace |-> t2, raised |-> TRUE]
        ELSE move_objects(Drop(Put(objs, new, objs[old]), {old}), Tail(pairs), F, t2)

move_file_swallow(owner_id, old_path, new_path, F, trace) ==
    [objects |-> objects, trace |-> trace, raised |-> FALSE]

move_file(owner_id, old_path, new_path, F, trace) ==
    move_objects(objects,
                 << <<object_path(owner_id, old_path), object_path(owner_id, new_path)>>,
                    <<optimized_object_path(owner_id, old_path),
                      optimized_object_path(owner_id, new_path)>> >>,
                 F, trace)

path_changed_always(inode, path) == TRUE

\* if path != inode.path
path_changed(inode, path) == path # inode.path

moved_row_reset(inode, path) ==
    [inode EXCEPT !.path = path, !.should_move = FALSE, !.is_indexed = FALSE]

\* inode.path = path; inode.should_move = False
moved_row(inode, path) == [inode EXCEPT !.path = path, !.should_move = FALSE]

move_inode(id, F) ==
    IF ~HasRow(id) THEN Raise(<<"select_inode">>)
    ELSE
    LET inode == inodes[id]
        path == canon[id]
        t1 == <<"select_inode", "inode_path">>
    IN  IF ~path_changed(inode, path)
        THEN Res(inodes, pages, objects, search, <<>>, <<>>, t1, FALSE)
        ELSE
        LET m == IF inode.type = "file"
                 THEN move_file(inode.owner_id, inode.path, path, F, t1)
                 ELSE [objects |-> objects, trace |-> t1, raised |-> FALSE]
            row == moved_row(inode, path)
        IN  IF m.raised
            THEN Res(inodes, pages, m.objects, search, <<>>, <<>>, m.trace, TRUE)
            ELSE Res([inodes EXCEPT ![id] = row], pages, m.objects, search,
                     IF HasChannel THEN <<Task("index_inode", After(id))>> ELSE <<>>,
                     <<>>, Append(m.trace, "commit"), FALSE)

\* MinioService.set_public_tags: the original, then the optimized object
RECURSIVE set_public_tags(_, _, _, _, _)
set_public_tags(objs, keys, is_public, F, trace) ==
    IF keys = <<>> THEN [objects |-> objs, trace |-> trace, raised |-> FALSE]
    ELSE
    LET t1 == Append(trace, "set_object_tags")
    IN  IF "tags" \in F \/ Head(keys) \notin DOMAIN objs
        THEN [objects |-> objs, trace |-> t1, raised |-> TRUE]
        ELSE set_public_tags(
                 [objs EXCEPT ![Head(keys)].is_public = TagOf(is_public)],
                 Tail(keys), is_public, F, t1)

share_inode(id, F) ==
    IF ~HasRow(id) THEN Raise(<<"select_inode">>)
    ELSE
    LET inode == inodes[id]
        t1 == <<"select_inode">>
        s == IF inode.type = "file"
             THEN set_public_tags(objects,
                      <<object_path(inode.owner_id, inode.path),
                        optimized_object_path(inode.owner_id, inode.path)>>,
                      inode.is_public, F, t1)
             ELSE [objects |-> objects, trace |-> t1, raised |-> FALSE]
    IN  IF s.raised
        THEN Res(inodes, pages, s.objects, search, <<>>, <<>>, s.trace, TRUE)
        ELSE Res(inodes, pages, s.objects, search,
                 IF HasChannel THEN <<Task("index_inode", After(id))>> ELSE <<>>,
                 <<>>, s.trace, FALSE)

delete_document_none(docs, id) == docs

\* OpenSearchService.delete_document: the child pages, then the parent
delete_document(docs, id) ==
    Drop(docs, {d \in DOMAIN docs : d = ParentDocId(id) \/ (Len(d) = 2 /\ d[1] = id)})

\* remove_objects answers with the per-object errors ("remove": nothing is
\* removed, the errors are logged) or the request itself raises
\* ("remove_raise"); delete_document is inside try/except
delete_inode(data, F) ==
    LET keys == {object_path(data.owner_id, data.path),
                 optimized_object_path(data.owner_id, data.path)}
        isFile == data.type = "file"
        objs == IF isFile /\ "remove" \notin F THEN Drop(objects, keys) ELSE objects
        t1 == IF isFile THEN <<"remove_objects">> ELSE <<>>
        docs == IF "search" \in F THEN search ELSE delete_document(search, data.id)
    IN  IF isFile /\ "remove_raise" \in F THEN Raise(t1)
        ELSE Res(inodes, pages, objs, docs, <<>>, <<>>,
                 Append(t1, "delete_document"), FALSE)

(***************************************************************************)
(* The dispatcher                                                          *)
(***************************************************************************)
\* the external calls that may fail during one delivery (at most one does)
Faults(key) ==
    CASE key = "ingest_inode" ->
            {"download", "optimize", "upload", "tags", "extract", "upsert"}
      [] key = "embed_inode" -> {"embed"}
      [] key = "index_inode" -> {"search", "search_page"}
      [] key = "move_inode" -> {"copy", "remove"}
      [] key = "share_inode" -> {"tags"}
      [] key = "delete_inode" -> {"remove", "remove_raise", "search"}
      [] OTHER -> {}
FaultSets(key) == {{}} \cup {{f} : f \in Faults(key)}

Route_swapped(key) ==
    IF key = "embed_inode" THEN "index_inode"
    ELSE IF key = "index_inode" THEN "embed_inode"
    ELSE IF key \in ValidKeys THEN key ELSE "none"

Route_default(key) == IF key \in ValidKeys THEN key ELSE "index_inode"

\* match message.routing_key: the handler of a key ("none": case _)
Route(key) == IF key \in ValidKeys THEN key ELSE "none"

Run(handler, arg, F) ==
    CASE handler = "ingest_inode" -> ingest_inode(arg, F)
      [] handler = "embed_inode" -> embed_inode(arg, F)
      [] handler = "index_inode" -> index_inode(arg, F)
      [] handler = "move_inode" -> move_inode(arg, F)
      [] handler = "share_inode" -> share_inode(arg, F)
      [] handler = "delete_inode" -> delete_inode(arg, F)

\* the try block of process_message: the handlers called, and the result
Dispatch(m, F) ==
    LET h == Route(m.key)
        field == IF h = "delete_inode" THEN "before" ELSE "after"
        arg == IF h = "delete_inode" THEN m.body ELSE m.body.id
    IN  IF h = "none" \/ m.body.kind # field       \* Unknown routing key, KeyError
        THEN [called |-> <<>>, res |-> Raise(<<>>)]
        ELSE [called |-> <<[name |-> h, arg |-> arg]>>, res |-> Run(h, arg, F)]

process_exit_unguarded(settled, exc) ==
    IF exc THEN [settle |-> Append(settled, "reject"), escaped |-> TRUE]
    ELSE [settle |-> Append(settled, "ack"), escaped |-> FALSE]

\* the end of `async with message.process()`: settled holds what the block
\* itself sent for the delivery, exc is whether an exception leaves the
\* block.  With an exception the delivery is rejected unless it is already
\* processed; without one it is acked, and the ack of a delivery that is
\* already processed raises and sends nothing.
process_exit(settled, exc) ==
    IF exc
    THEN [settle |-> IF settled = <<>> THEN <<"reject">> ELSE settled,
          escaped |-> TRUE]
    ELSE IF settled = <<>>
    THEN [settle |-> <<"ack">>, escaped |-> FALSE]
    ELSE [settle |-> settled, escaped |-> TRUE]

\* what the except block of process_message sent for the delivery
Nacked(d) == IF d.res.raised THEN <<"nack">> ELSE <<>>

except_nack_requeue(d) ==
    [called |-> d.called, res |-> d.res,
     settle |-> process_exit(Nacked(d), FALSE).settle,
     requeue |-> d.res.raised,
     escaped |-> process_exit(Nacked(d), FALSE).escaped]

\* except Exception: await message.nack(requeue=False); then the block ends
\* without an exception
except_nack(d) ==
    [called |-> d.called, res |-> d.res,
     settle |-> process_exit(Nacked(d), FALSE).settle,
     requeue |-> FALSE,
     escaped |-> process_exit(Nacked(d), FALSE).escaped]

\* async with message.process(): json.loads is outside the try, so its
\* exception leaves the block
process_message(m, F) ==
    IF m.body.kind = "garbage"                        \* json.loads raises
    THEN [called |-> <<>>, res |-> Raise(<<>>),
          settle |-> process_exit(<<>>, TRUE).settle, requeue |-> FALSE,
          escaped |-> process_exit(<<>>, TRUE).escaped]
    ELSE except_nack(Dispatch(m, F))

\* history: which inodes have a successful embed run and no ingest run after it
Embedded(called, raised) ==
    IF called = <<>> THEN embedded
    ELSE IF called[1].name = "ingest_inode" THEN embedded \ {called[1].arg}
    ELSE IF called[1].name = "embed_inode" /\ ~raised THEN embedded \cup {called[1].arg}
    ELSE embedded

\* the original object and the path an ingest run of inode id would read
Snapshot(id) ==
    IF HasRow(id) /\ object_path(inodes[id].owner_id, inodes[id].path) \in DOMAIN objects
    THEN <<[content |-> objects[object_path(inodes[id].owner_id, inodes[id].path)].content,
            path |-> inodes[id].path]>>
    ELSE <<>>

\* history: what the latest ingest run of each inode read, when the run
\* returned and none of its external calls failed
Ingested(called, raised, F) ==
    IF called = <<>> \/ called[1].name # "ingest_inode" THEN ingested
    ELSE [ingested EXCEPT ![called[1].arg] =
            IF ~raised /\ F = {} THEN Snapshot(called[1].arg) ELSE <<>>]

\* history: the user notifications published for each inode by its latest
\* ingest run that reached the finalizer and by every delivery since
Notified(called, res) ==
    IF called = <<>> \/ called[1].name = "delete_inode" THEN notified
    ELSE IF called[1].name = "ingest_inode" /\ ~res.raised
    THEN [notified EXCEPT ![called[1].arg] = Len(res.notes)]
    ELSE [notified EXCEPT ![called[1].arg] = @ + Len(res.notes)]

\* the state one processed delivery m leaves, d being what process_message did
Settled(m, d, F) ==
    /\ inodes' = d.res.inodes
    /\ pages' = d.res.pages
    /\ objects' = d.res.objects
    /\ search' = d.res.search
    /\ queue' = Tail(queue) \o d.res.out
    /\ embedded' = Embedded(d.called, d.res.raised)
    /\ notified' = Notified(d.called, d.res)
    /\ ingested' = Ingested(d.called, d.res.raised, F)
    /\ last' = [seq |-> last.seq + 1, key |-> m.key, body |-> m.body,
                faults |-> F, called |-> d.called, settle |-> d.settle,
                requeue |-> d.requeue, escaped |-> d.escaped,
                raised |-> d.res.raised, trace |-> d.res.trace,
                out |-> d.res.out, notes |-> d.res.notes,
                again |-> d.called # <<>>
                          /\ d.called[1].name = "embed_inode"
                          /\ d.called[1].arg \in embedded,
                reingest |-> d.called # <<>>
                          /\ d.called[1].name = "ingest_inode"
                          /\ F = {}
                          /\ Snapshot(d.called[1].arg) # <<>>
                          /\ ingested[d.called[1].arg] = Snapshot(d.called[1].arg)]
    /\ UNCHANGED <<canon, produced, aux>>

Deliver ==
    /\ queue # <<>>
    /\ \E F \in FaultSets(Head(queue).key) :
          Settled(Head(queue), process_message(Head(queue), F), F)

(***************************************************************************)
(* The producers outside the worker                                        *)
(***************************************************************************)
Producible ==
    {Task(k, After(1)) : k \in AfterKeys \cup {"answer_prompt"}}
        \cup {Task(k, After(2)) : k \in {"index_inode", "move_inode", "share_inode"}}
        \cup {Task("index_inode", Garbage), Task("delete_inode", After(1))}

Produce ==
    /\ produced < MaxProduced
    /\ \E m \in Producible : queue' = Append(queue, m)
    /\ produced' = produced + 1
    /\ UNCHANGED <<inodes, canon, pages, objects, search, embedded, notified, ingested, last, aux>>

\* the row is deleted (its pages by cascade) and delete_inode is published
DeleteRow ==
    /\ produced < MaxProduced
    /\ \E i \in Ids :
        /\ HasRow(i)
        /\ inodes' = [inodes EXCEPT ![i] = NoRow]
        /\ pages' = pages \ PagesOf(pages, i)
        /\ queue' = Append(queue, Task("delete_inode", Before(i, inodes[i])))
    /\ produced' = produced + 1
    /\ UNCHANGED <<canon, objects, search, embedded, notified, ingested, last, aux>>

(***************************************************************************)
(* Initial states: a file has been uploaded and its ingest_inode published; *)
(* a folder exists beside it.                                               *)
(***************************************************************************)
PageTexts == UNION {[1..n -> Texts] : n \in 1..MaxPages}

Contents ==
    {Content("text/plain", "none", <<>>)}
        \cup {Content("application/pdf", d, << <<"a">> >>) :
                d \in {"unreadable", "unrepairable", "ocr_crash"}}
        \cup {Content("application/pdf", "none", t) : t \in PageTexts}

\* the owner uploads the file again: the original object is replaced (a new
\* object carries no tag) and ingest_inode is published for the inode
Reupload ==
    /\ produced < MaxProduced
    /\ HasRow(1)
    /\ object_path(Owner, inodes[1].path) \in DOMAIN objects
    /\ \E c \in Contents :
        /\ c # objects[object_path(Owner, inodes[1].path)].content
        /\ objects' = Put(objects, object_path(Owner, inodes[1].path), Object(c, NoTag))
    /\ queue' = Append(queue, Task("ingest_inode", After(1)))
    /\ produced' = produced + 1
    /\ UNCHANGED <<inodes, canon, pages, search, embedded, notified, ingested, last, aux>>

Windows ==
    {w \in (0..MaxFrom) \X ({ToPageNone} \cup (0..MaxPages)) :
        w[2] = ToPageNone \/ w[1] <= w[2]}

\* where the tree has been moved to since the paths were stored: nowhere,
\* the folder renamed, or the file renamed
Destinations ==
    {<<PathFileA, PathDirA>>, <<PathFileB, PathDirB>>, <<PathFileC, PathDirA>>}

\* before the first delivery
NoDelivery ==
    [seq |-> 0, key |-> "none", body |-> Garbage, faults |-> {}, called |-> <<>>,
     settle |-> <<>>, requeue |-> FALSE, escaped |-> FALSE,
     raised |-> FALSE, trace |-> <<>>, out |-> <<>>, notes |-> <<>>,
     again |-> FALSE, reingest |-> FALSE]

NoProbe == [owner |-> Owner, path |-> <<>>, keys |-> <<>>]

\* no MessageService has been constructed
NoService ==
    [env |-> FALSE, connection |-> "none", channel |-> "none", sent |-> <<>>,
     result |-> "none", published |-> FALSE]

\* no request has been made on the index
NoIndex == [exists |-> FALSE, log |-> <<>>]

\* no embed run has started
NoEmbed ==
    [pc |-> "idle", n |-> 0, next |-> 1, session |-> {}, stored |-> {},
     before |-> FALSE, row |-> NoRow, out |-> <<>>, notes |-> <<>>,
     raised |-> FALSE, assigned |-> 0]

\* a worker that holds no delivery
NoLocal == [pc |-> "idle", key |-> "none", path |-> <<>>, new |-> <<>>,
            is_public |-> FALSE]

\* no worker process has been started
NoRace ==
    [row |-> [path |-> <<>>, is_public |-> FALSE, is_ingested |-> FALSE,
              is_embedded |-> FALSE, is_indexed |-> FALSE],
     canon |-> <<>>, objs |-> {}, doc |-> <<>>, queue |-> <<>>, events |-> 0,
     w |-> <<>>]

Row(id, type, path, to, is_public, uploaded, w) ==
    [exists |-> TRUE, id |-> id, owner_id |-> Owner, type |-> type,
     name |-> Filename(to), path |-> path, is_public |-> is_public,
     is_uploaded |-> uploaded, is_ingested |-> FALSE, is_embedded |-> FALSE,
     is_indexed |-> FALSE, error |-> NoError,
     from_page |-> w[1], to_page |-> w[2], should_move |-> path # to]

Init ==
    \E c \in Contents, w \in Windows, pub \in BOOLEAN, dest \in Destinations :
      LET fto == dest[1]
          dto == dest[2]
      IN
        /\ inodes = [i \in Ids |->
                        IF i = 1 THEN Row(1, "file", PathFileA, fto, pub, TRUE, w)
                        ELSE Row(i, "folder", PathDirA, dto, FALSE, FALSE,
                                 <<0, ToPageNone>>)]
        /\ canon = [i \in Ids |-> IF i = 1 THEN fto ELSE dto]
        /\ pages = {}
        /\ objects = [k \in {object_path(Owner, PathFileA)} |-> Object(c, NoTag)]
        /\ search = << >>
        /\ queue = <<Task("ingest_inode", After(1))>>
        /\ produced = 0
        /\ embedded = {}
        /\ notified = [i \in Ids |-> 0]
        /\ ingested = [i \in Ids |-> <<>>]
        /\ last = NoDelivery
        /\ probe = NoProbe
        /\ ms = NoService
        /\ idx = NoIndex
        /\ race = NoRace
        /\ emb = NoEmbed

Next == Deliver \/ Produce \/ DeleteRow \/ Reupload

Spec == Init /\ [][Next]_vars

(***************************************************************************)
(* A run without outside producers and without failing external calls,     *)
(* under fair delivery: the broker delivers every queued message.          *)
(***************************************************************************)
DeliverOK ==
    /\ queue # <<>>
    /\ Settled(Head(queue), process_message(Head(queue), {}), {})

NextOK == DeliverOK

LiveSpec == Init /\ [][NextOK]_vars /\ WF_vars(DeliverOK)

(***************************************************************************)
(* The object keys of a file, for the owners and the file paths there can  *)
(* be: MinioService.object_path and optimized_object_path applied to an    *)
(* owner and a path.                                                       *)
(***************************************************************************)
MaxPathLen == 6
Owners == {"U", "V"}
PathChars == {"/", "x", "."}

\* an absolute path without empty, "." or ".." segments that names a file
ValidFilePath(p) ==
    /\ p[1] = "/"
    /\ p[Len(p)] # "/"
    /\ \A i \in 1..(Len(p) - 1) : p[i] = "/" =>
          /\ p[i + 1] # "/"
          /\ ~(p[i + 1] = "." /\ (i + 1 = Len(p) \/ p[i + 2] = "/"))
          /\ ~(/\ i + 2 <= Len(p)
               /\ p[i + 1] = "." /\ p[i + 2] = "."
               /\ (i + 2 = Len(p) \/ p[i + 3] = "/"))

FilePaths ==
    {p \in UNION {[1..n -> PathChars] : n \in 2..MaxPathLen} : ValidFilePath(p)}

\* no inode, no object, no document, no message
Idle ==
    /\ inodes = [i \in Ids |-> NoRow]
    /\ canon = [i \in Ids |-> <<"/">>]
    /\ pages = {}
    /\ objects = << >>
    /\ search = << >>
    /\ queue = << >>
    /\ produced = 0
    /\ embedded = {}
    /\ notified = [i \in Ids |-> 0]
    /\ ingested = [i \in Ids |-> <<>>]
    /\ last = NoDelivery

PathInit ==
    /\ Idle
    /\ ms = NoService
    /\ idx = NoIndex
    /\ race = NoRace
    /\ emb = NoEmbed
    /\ \E o \in Owners, p \in FilePaths : probe = [owner |-> o, path |-> p, keys |-> <<>>]

\* the original and the optimized object key of the file
ObjectKeys ==
    /\ probe.keys = <<>>
    /\ probe' = [probe EXCEPT !.keys = <<object_path(probe.owner, probe.path),
                                         optimized_object_path(probe.owner, probe.path)>>]
    /\ UNCHANGED <<worker, ms, idx, race, emb>>

PathNext == ObjectKeys

PathSpec == PathInit /\ [][PathNext]_vars

(***************************************************************************)
(* MessageService (message.py): a blocking connection and a channel, and    *)
(* the two publish methods.  What the broker does during one call is E:     *)
(* whether opening a connection, opening a channel and publishing raise.    *)
(***************************************************************************)
MaxSent == 3    \* messages a MessageService publishes

Outcomes == {"ok", "raises"}
Brokers == [connect : Outcomes, channel : Outcomes, publish : Outcomes]

\* MessageService._initialize_connection
initialize_connection(s, E) ==
    IF ~s.env THEN s                                  \* missing variables: return
    ELSE IF E.connect = "ok" /\ E.channel = "ok"
    THEN [s EXCEPT !.connection = "open", !.channel = "open"]
    ELSE [s EXCEPT !.connection = "none", !.channel = "none"]

Ensured(s, raised) == [state |-> s, ok |-> s.channel # "none", raised |-> raised]

\* MessageService._ensure_connection
ensure_connection(s, E) ==
    LET s1 == IF s.connection # "open" THEN initialize_connection(s, E) ELSE s
    IN  IF s1.channel = "open" THEN Ensured(s1, FALSE)
        ELSE IF s1.connection = "open"
        THEN (IF E.channel = "raises" THEN Ensured(s1, TRUE)
              ELSE Ensured([s1 EXCEPT !.channel = "open"], FALSE))
        ELSE Ensured(initialize_connection(s1, E), FALSE)

\* the body of publish_task and of publish_user_notification after the
\* message is encoded
publish(s, E, msg) ==
    LET r == ensure_connection(s, E)
    IN  IF r.raised
        THEN [r.state EXCEPT !.result = "raised", !.published = FALSE]
        ELSE IF ~r.ok
        THEN [r.state EXCEPT !.result = "False", !.published = FALSE]
        ELSE IF E.publish = "raises" \/ r.state.channel # "open"
        THEN [r.state EXCEPT !.result = "False", !.published = FALSE]
        ELSE [r.state EXCEPT !.result = "True", !.published = TRUE,
                             !.sent = Append(@, msg)]

TaskKeys == {"ingest_inode", "index_inode"}

publish_task ==
    /\ Len(ms.sent) < MaxSent
    /\ \E E \in Brokers, k \in TaskKeys :
          ms' = publish(ms, E, [exchange |-> "insight", routing_key |-> <<k>>])
    /\ UNCHANGED <<worker, probe, idx, race, emb>>

publish_user_notification ==
    /\ Len(ms.sent) < MaxSent
    /\ \E E \in Brokers, is_public \in BOOLEAN :
          ms' = publish(ms, E,
                    [exchange |-> "user",
                     routing_key |-> IF is_public THEN <<"public">>
                                     ELSE <<"user-", Owner>>])
    /\ UNCHANGED <<worker, probe, idx, race, emb>>

\* the broker or the network ends the connection, and its channel with it
ConnectionLost ==
    /\ ms.connection = "open"
    /\ ms' = [ms EXCEPT !.connection = "closed",
                        !.channel = IF @ = "open" THEN "closed" ELSE @]
    /\ UNCHANGED <<worker, probe, idx, race, emb>>

\* the broker closes the channel and keeps the connection
ChannelLost ==
    /\ ms.channel = "open"
    /\ ms' = [ms EXCEPT !.channel = "closed"]
    /\ UNCHANGED <<worker, probe, idx, race, emb>>

\* after MessageService(): _initialize_connection has run once
MsgInit ==
    /\ Idle
    /\ probe = NoProbe
    /\ idx = NoIndex
    /\ race = NoRace
    /\ emb = NoEmbed
    /\ \E env \in BOOLEAN, E \in Brokers :
          ms = initialize_connection([NoService EXCEPT !.env = env], E)

MsgNext == publish_task \/ publish_user_notification \/ ConnectionLost \/ ChannelLost

MsgSpec == MsgInit /\ [][MsgNext]_vars

(***************************************************************************)
(* The index of the search store: OpenSearchService.configure_index and     *)
(* delete_index (opensearch.py) against a store that answers a request      *)
(* itself or fails it.                                                      *)
(***************************************************************************)
MaxRequests == 3    \* requests made on the index

Response(status, type) == [status |-> status, type |-> type]

\* a failed request: rejected settings, a server error, an answer without
\* an error type, or no answer at all (status 0: httpx.request raises)
Failures ==
    {Response(400, "mapper_parsing_exception"), Response(400, "none"),
     Response(500, "internal_server_error"), Response(0, "transport")}

\* what the store itself answers to PUT /inodes and to DELETE /inodes
Answer(method, exists) ==
    IF method = "put"
    THEN (IF exists THEN Response(400, "resource_already_exists_exception")
          ELSE Response(200, "none"))
    ELSE (IF exists THEN Response(200, "none")
          ELSE Response(404, "index_not_found_exception"))

Responses(method, exists) == {Answer(method, exists)} \cup Failures

\* whether the index exists after the request
Exists(method, exists, res) ==
    IF res.status # 200 THEN exists ELSE method = "put"

configure_index_strict(res) == IF res.status = 200 THEN "True" ELSE "raised"

\* OpenSearchService.configure_index, on the response of PUT /inodes
configure_index(res) ==
    IF res.status = 200 THEN "True"
    ELSE IF res.status = 400 /\ res.type = "resource_already_exists_exception"
    THEN "True"
    ELSE "raised"

\* OpenSearchService.delete_index, on the response of DELETE /inodes
delete_index(res) == IF res.status = 200 THEN "True" ELSE "raised"

Requested(op, method, res, result) ==
    /\ idx' = [exists |-> Exists(method, idx.exists, res),
               log |-> Append(idx.log,
                          [op |-> op, response |-> res, result |-> result,
                           failed |-> res \in Failures])]
    /\ UNCHANGED <<worker, probe, ms, race, emb>>

ConfigureIndex ==
    /\ Len(idx.log) < MaxRequests
    /\ \E res \in Responses("put", idx.exists) :
          Requested("configure_index", "put", res, configure_index(res))

DeleteIndex ==
    /\ Len(idx.log) < MaxRequests
    /\ \E res \in Responses("delete", idx.exists) :
          Requested("delete_index", "delete", res, delete_index(res))

\* the index may exist or not when the service starts
IndexInit ==
    /\ Idle
    /\ probe = NoProbe
    /\ ms = NoService
    /\ race = NoRace
    /\ emb = NoEmbed
    /\ \E e \in BOOLEAN : idx = [NoIndex EXCEPT !.exists = e]

IndexNext == ConfigureIndex \/ DeleteIndex

IndexSpec == IndexInit /\ [][IndexNext]_vars

(***************************************************************************)
(* Several worker processes on one queue.  Each process runs               *)
(* process_message on the delivery it holds (prefetch 1), and a handler is *)
(* no longer one step: between its select, its calls to the object store   *)
(* and the search store, and its commit, another process may run.  The     *)
(* state is that of one file inode of owner Owner; no external call fails. *)
(***************************************************************************)
NWorkers == 2     \* worker processes
MaxEvents == 1    \* renames and shares by the owner while the workers run

Workers == 1..NWorkers

RaceContent == Content("application/pdf", "none", << <<"a">> >>)

Local(w) == race.w[w]
At(w, key, pc) == race.w[w].key = key /\ race.w[w].pc = pc

\* the handler returned or raised: the delivery is settled
Release(r, w) == [r EXCEPT !.w[w] = NoLocal]
Goto(r, w, pc) == [r EXCEPT !.w[w].pc = pc]
PublishTask(r, key) == [r EXCEPT !.queue = Append(@, key)]

RaceFrame == UNCHANGED <<worker, probe, ms, idx, emb>>

\* the broker hands the oldest message to a process that holds none
consume(w) ==
    /\ Local(w).pc = "idle"
    /\ race.queue # <<>>
    /\ race' = [race EXCEPT !.queue = Tail(@),
                            !.w[w] = [NoLocal EXCEPT !.pc = "select_inode",
                                                     !.key = Head(race.queue)]]
    /\ RaceFrame

\* where a handler goes after it has loaded the row ("idle": it is over)
AfterSelect(key) ==
    CASE key = "ingest_inode" ->
            IF object_path(Owner, race.row.path) \in DOMAIN race.objs
            THEN "upload_optimized_file" ELSE "idle"       \* download_file raises
      [] key = "embed_inode" -> "commit"
      [] key = "index_inode" -> "index_document"
      [] key = "move_inode" ->
            IF path_changed(race.row, race.canon) THEN "move_file" ELSE "idle"
      [] key = "share_inode" -> "set_public_tags"

\* select(Inodes).where(Inodes.id == id), and func.inode_path in move_inode;
\* the ingest handler downloads the original right after
select_inode(w) ==
    /\ Local(w).pc = "select_inode"
    /\ race' = [race EXCEPT !.w[w] =
                    IF AfterSelect(Local(w).key) = "idle" THEN NoLocal
                    ELSE [pc |-> AfterSelect(Local(w).key), key |-> Local(w).key,
                          path |-> race.row.path, new |-> race.canon,
                          is_public |-> race.row.is_public]]
    /\ RaceFrame

\* ingest_inode: the optimized file goes to the key of the path it loaded
ingest_upload(w) ==
    /\ At(w, "ingest_inode", "upload_optimized_file")
    /\ race' = Goto([race EXCEPT !.objs =
                        Put(@, optimized_object_path(Owner, Local(w).path),
                            Object(Optimized(RaceContent), NoTag))],
                    w, "commit")
    /\ RaceFrame

\* ingest_inode: is_ingested = True, commit, publish embed_inode
ingest_commit(w) ==
    /\ At(w, "ingest_inode", "commit")
    /\ race' = Release(PublishTask([race EXCEPT !.row.is_ingested = TRUE],
                                   "embed_inode"), w)
    /\ RaceFrame

\* embed_inode: is_embedded = True, commit, publish index_inode
embed_commit(w) ==
    /\ At(w, "embed_inode", "commit")
    /\ race' = Release(PublishTask([race EXCEPT !.row.is_embedded = TRUE],
                                   "index_inode"), w)
    /\ RaceFrame

\* index_inode: the parent document is built from the row it loaded
index_document(w) ==
    /\ At(w, "index_inode", "index_document")
    /\ race' = Goto([race EXCEPT !.doc = <<[path |-> Local(w).path,
                                            is_public |-> Local(w).is_public]>>],
                    w, "commit")
    /\ RaceFrame

\* index_inode: is_indexed = True, commit
index_commit(w) ==
    /\ At(w, "index_inode", "commit")
    /\ race' = Release([race EXCEPT !.row.is_indexed = TRUE], w)
    /\ RaceFrame

\* MinioService.move_file from the path it loaded to the canonical path
MovedObjects(w) ==
    move_objects(race.objs,
                 << <<object_path(Owner, Local(w).path),
                      object_path(Owner, Local(w).new)>>,
                    <<optimized_object_path(Owner, Local(w).path),
                      optimized_object_path(Owner, Local(w).new)>> >>,
                 {}, <<>>)

race_move_file(w) ==
    /\ At(w, "move_inode", "move_file")
    /\ race' = IF MovedObjects(w).raised
               THEN Release([race EXCEPT !.objs = MovedObjects(w).objects], w)
               ELSE Goto([race EXCEPT !.objs = MovedObjects(w).objects], w, "commit")
    /\ RaceFrame

\* move_inode: inode.path = path, commit, publish index_inode
move_commit(w) ==
    /\ At(w, "move_inode", "commit")
    /\ race' = Release(PublishTask([race EXCEPT !.row.path = Local(w).new],
                                   "index_inode"), w)
    /\ RaceFrame

\* MinioService.set_public_tags with the is_public it loaded
TaggedObjects(w) ==
    set_public_tags(race.objs,
                    <<object_path(Owner, Local(w).path),
                      optimized_object_path(Owner, Local(w).path)>>,
                    Local(w).is_public, {}, <<>>)

\* share_inode: tag the objects, publish index_inode
share_tags(w) ==
    /\ At(w, "share_inode", "set_public_tags")
    /\ race' = IF TaggedObjects(w).raised
               THEN Release([race EXCEPT !.objs = TaggedObjects(w).objects], w)
               ELSE Release(PublishTask([race EXCEPT !.objs = TaggedObjects(w).objects],
                                        "index_inode"), w)
    /\ RaceFrame

\* the owner renames the file: inode_path changes, move_inode is published
Rename ==
    /\ race.events < MaxEvents
    /\ race.canon = PathFileA
    /\ race' = PublishTask([race EXCEPT !.canon = PathFileB, !.events = @ + 1],
                           "move_inode")
    /\ RaceFrame

\* the owner shares or unshares the file: is_public changes, share_inode
\* is published
Share ==
    /\ race.events < MaxEvents
    /\ race' = PublishTask([race EXCEPT !.row.is_public = ~@, !.events = @ + 1],
                           "share_inode")
    /\ RaceFrame

\* a file that went through the pipeline (both objects, a current search
\* document) with index_inode or ingest_inode published again for it, or a
\* file just uploaded with its ingest_inode
RaceInit ==
    /\ Idle
    /\ probe = NoProbe
    /\ ms = NoService
    /\ idx = NoIndex
    /\ emb = NoEmbed
    /\ \E done, pub \in BOOLEAN, first \in {"ingest_inode", "index_inode"} :
          /\ ~done => first = "ingest_inode"
          /\ race =
               [row |-> [path |-> PathFileA, is_public |-> pub, is_ingested |-> done,
                         is_embedded |-> done, is_indexed |-> done],
                canon |-> PathFileA,
                objs |-> [k \in {object_path(Owner, PathFileA)} \cup
                                (IF done THEN {optimized_object_path(Owner, PathFileA)}
                                 ELSE {}) |->
                            IF k = object_path(Owner, PathFileA)
                            THEN Object(RaceContent, NoTag)
                            ELSE Object(Optimized(RaceContent), NoTag)],
                doc |-> IF done THEN <<[path |-> PathFileA, is_public |-> pub]>>
                        ELSE <<>>,
                queue |-> <<first>>,
                events |-> 0,
                w |-> [w \in Workers |-> NoLocal]]

RaceNext ==
    \/ Rename
    \/ Share
    \/ \E w \in Workers :
          \/ consume(w)
          \/ select_inode(w)
          \/ ingest_upload(w)
          \/ ingest_commit(w)
          \/ embed_commit(w)
          \/ index_document(w)
          \/ index_commit(w)
          \/ race_move_file(w)
          \/ move_commit(w)
          \/ share_tags(w)

RaceSpec == RaceInit /\ [][RaceNext]_vars

(***************************************************************************)
(* One run of embed_inode, request by request.  embed() is a generator:    *)
(* zip() pulls one embedding at a time, so the request of a batch is made  *)
(* when the embeddings of the batches before it are already assigned to    *)
(* the Page objects of the session.  Nothing is stored before              *)
(* session.commit(); leaving the `with Session` block on an exception      *)
(* closes the session, which discards what is pending.                     *)
(***************************************************************************)
MaxSelected == 130   \* pages the run selects (three batches)

\* batched(strings, 64): the number of batches of n strings
Batches(n) == (n + BatchSize - 1) \div BatchSize

\* the pages (numbered from 1 in selection order) of batch b of n
Batch(n, b) == {i \in 1..n : (i - 1) \div BatchSize = b - 1}

session_exit_flushed(e) ==
    [e EXCEPT !.stored = @ \cup e.session, !.session = {}, !.pc = "done",
              !.raised = TRUE]

\* an exception leaves `with Session(self.engine) as session`
session_exit(e) ==
    [e EXCEPT !.session = {}, !.pc = "done", !.raised = TRUE]

EmbedFrame == UNCHANGED <<worker, probe, ms, idx, race>>

\* response.status_code == 200: the embeddings of the batch are yielded and
\* assigned, page.embedding = embedding
EmbedBatch ==
    /\ emb.pc = "embed"
    /\ emb.next <= Batches(emb.n)
    /\ emb' = [emb EXCEPT !.session = @ \cup Batch(emb.n, emb.next),
                          !.assigned = @ + Cardinality(Batch(emb.n, emb.next)),
                          !.next = @ + 1]
    /\ EmbedFrame

\* else: raise Exception(response.text)
EmbedRaises ==
    /\ emb.pc = "embed"
    /\ emb.next <= Batches(emb.n)
    /\ emb' = session_exit(emb)
    /\ EmbedFrame

\* inode.is_embedded = True; session.commit()
EmbedCommit ==
    /\ emb.pc = "embed"
    /\ emb.next > Batches(emb.n)
    /\ emb' = [emb EXCEPT !.stored = @ \cup emb.session, !.session = {},
                          !.row.is_embedded = TRUE, !.pc = "publish"]
    /\ EmbedFrame

\* publish index_inode, and the notification when the inode is ready
EmbedPublish ==
    /\ emb.pc = "publish"
    /\ emb' = [emb EXCEPT !.out = IF HasChannel THEN embed_followups(emb.row.id)
                                  ELSE <<>>,
                          !.notes = IF HasChannel
                                    THEN NotifyIfTerminal(emb.row, emb.row.id, "embed_inode")
                                    ELSE <<>>,
                          !.pc = "done"]
    /\ EmbedFrame

\* an ingested file inode without error, n of its pages selected (they have
\* contents and no embedding)
EmbedInit ==
    /\ Idle
    /\ probe = NoProbe
    /\ ms = NoService
    /\ idx = NoIndex
    /\ race = NoRace
    /\ \E n \in 0..MaxSelected, e, indexed, pub \in BOOLEAN :
          emb = [NoEmbed EXCEPT
                    !.pc = "embed", !.n = n, !.before = e,
                    !.row = [Row(1, "file", PathFileA, PathFileA, pub, TRUE,
                                 <<0, ToPageNone>>)
                             EXCEPT !.is_ingested = TRUE, !.is_embedded = e,
                                    !.is_indexed = indexed]]

EmbedNext == EmbedBatch \/ EmbedRaises \/ EmbedCommit \/ EmbedPublish

EmbedSpec == EmbedInit /\ [][EmbedNext]_vars

(***************************************************************************)
(* Properties                                                              *)
(***************************************************************************)
Range(f) == {f[i] : i \in DOMAIN f}

\* this step is a delivery
Delivering == last'.seq = last.seq + 1

\* this step delivers key to the handler of an inode whose row exists
DeliveringTo(key, id) ==
    /\ Delivering
    /\ Head(queue).key = key
    /\ Head(queue).body.kind = "after"
    /\ Head(queue).body.id = id
    /\ HasRow(id)

\* the latest delivery ran handler name
Ran(name) == last.called # <<>> /\ last.called[1].name = name

WellFormed(key, body) ==
    IF key = "delete_inode" THEN body.kind = "before" ELSE body.kind = "after"

\* C1: a delivery with one of the six routing keys, whose payload carries
\* the field of that key, runs the handler of that key once and no other
\* handler; the handler gets after.id, delete_inode gets the before record.
C1_DispatchByKey ==
    (last.seq > 0 /\ last.key \in ValidKeys /\ WellFormed(last.key, last.body)) =>
        /\ Len(last.called) = 1
        /\ last.called[1].name = last.key
        /\ IF last.key = "delete_inode"
           THEN last.called[1].arg = last.body
           ELSE last.called[1].arg = last.body.id

C1_Witness ==
    /\ last.key = "delete_inode"
    /\ last.called = <<[name |-> "delete_inode", arg |-> last.body]>>
    /\ last.body.kind = "before"
    /\ last.body.id = 1

C3_UnknownKeyStep ==
    (Delivering /\ Head(queue).key \notin ValidKeys /\ Head(queue).body.kind # "garbage") =>
        /\ last'.called = <<>>
        /\ last'.settle = <<"nack">>
        /\ ~last'.requeue
        /\ last'.out = <<>>
        /\ last'.notes = <<>>
        /\ queue' = Tail(queue)
        /\ UNCHANGED <<inodes, pages, objects, search>>

\* C3: every delivery with a routing key outside the six is rejected without
\* requeue, runs no handler and changes or publishes nothing.
C3_UnknownKeyRejected == [][C3_UnknownKeyStep]_vars

C3_Witness ==
    /\ last.key = "answer_prompt"
    /\ last.settle = <<"nack">>
    /\ last.called = <<>>

\* the latest delivery ran the ingest handler on inode 1, whose row exists
IngestRan == Ran("ingest_inode") /\ last.called[1].arg = 1 /\ HasRow(1)

C5_BothFollowups ==
    (IngestRan /\ "commit" \in Range(last.trace)) =>
        /\ Task("embed_inode", After(1)) \in Range(last.out)
        /\ Task("index_inode", After(1)) \in Range(last.out)

\* the original object of inode 1 is a PDF that every step accepts
ValidPdf ==
    /\ HasRow(1)
    /\ object_path(Owner, inodes[1].path) \in DOMAIN objects
    /\ LET c == objects[object_path(Owner, inodes[1].path)].content
       IN  c.mime = "application/pdf" /\ c.damage = "none"

\* C6: with ingest_inode delivered for an uploaded valid PDF, no external
\* call failing and only the worker's own follow-up events delivered, the
\* inode reaches is_ready: once every event is delivered and the queue is
\* empty, no further delivery can happen, so the inode is ready by then.
C6_EventuallyReady ==
    (ValidPdf /\ inodes[1].is_uploaded /\ queue = <<>>) => is_ready(inodes[1])

\* the content of the original object of an existing inode
OriginalOf(id) == objects[object_path(inodes[id].owner_id, inodes[id].path)].content

\* this step is an ingest run on inode id that got the original object
IngestingDownloaded(id) ==
    /\ DeliveringTo("ingest_inode", id)
    /\ object_path(inodes[id].owner_id, inodes[id].path) \in DOMAIN objects
    /\ "validate_pdf_mime_type" \in Range(last'.trace)

\* C7: when the downloaded object is not a PDF, ingest sets error =
\* unsupported_file_type and is_ingested, makes no page count, repair, OCR
\* or upload, and writes no Page row.
C7_UnsupportedStep ==
    \A id \in Ids :
        (IngestingDownloaded(id) /\ OriginalOf(id).mime # "application/pdf") =>
            /\ inodes'[id].error = "unsupported_file_type"
            /\ inodes'[id].is_ingested
            /\ Range(last'.trace) \cap
                 {"get_pdf_page_count", "repair_pdf", "optimize_pdf",
                  "upload_optimized_file", "upsert_pages"} = {}
            /\ pages' = pages
            /\ objects' = objects

\* C7: every ingest run on a downloaded object that is not a PDF ends with
\* error = unsupported_file_type and is_ingested, after the sniff alone.
C7_UnsupportedFileType == [][C7_UnsupportedStep]_vars

C7_Witness ==
    /\ IngestRan
    /\ inodes[1].error = "unsupported_file_type"
    /\ inodes[1].is_ingested
    /\ last.trace = <<"select_inode", "download_file", "validate_pdf_mime_type", "commit">>

\* C8: when the page count cannot be read or the repair raises, ingest sets
\* error = corrupted_file and is_ingested, runs no OCR, uploads nothing,
\* writes no Page row and returns without raising.
C8_CorruptedStep ==
    \A id \in Ids :
        (/\ IngestingDownloaded(id)
         /\ OriginalOf(id).mime = "application/pdf"
         /\ OriginalOf(id).damage \in {"unreadable", "unrepairable"}) =>
            /\ inodes'[id].error = "corrupted_file"
            /\ inodes'[id].is_ingested
            /\ Range(last'.trace) \cap
                 {"optimize_pdf", "upload_optimized_file", "upsert_pages"} = {}
            /\ pages' = pages
            /\ objects' = objects
            /\ ~last'.raised

\* C8: every ingest run on a PDF whose page count or repair fails ends with
\* error = corrupted_file and is_ingested, without OCR, upload, pages or raise.
C8_CorruptedFile == [][C8_CorruptedStep]_vars

C8_Witness ==
    /\ IngestRan
    /\ inodes[1].error = "corrupted_file"
    /\ inodes[1].is_ingested
    /\ last.trace[Len(last.trace) - 1] = "repair_pdf"
    /\ ~last.raised

\* C9: the embed handler refuses an inode whose error is set: it raises
\* before selecting pages, asks the provider nothing, changes no row and
\* publishes nothing.
C9_RefuseStep ==
    \A id \in Ids :
        (DeliveringTo("embed_inode", id) /\ inodes[id].error # NoError) =>
            /\ last'.raised
            /\ last'.trace = <<"select_inode">>
            /\ last'.out = <<>>
            /\ last'.notes = <<>>
            /\ queue' = Tail(queue)
            /\ UNCHANGED <<inodes, pages>>

\* C9: every embed run on an errored inode raises at once and changes and
\* publishes nothing.
C9_EmbedRefusesErrored == [][C9_RefuseStep]_vars

C9_Witness ==
    /\ Ran("embed_inode")
    /\ last.called[1].arg = 1
    /\ HasRow(1)
    /\ inodes[1].error # NoError
    /\ ~inodes[1].is_embedded
    /\ last.raised

\* C10: embed_inode delivered again after a successful embed run of the
\* inode, with no ingest run in between, asks the provider nothing, changes
\* no page and leaves is_embedded = true.
C10_ReembedStep ==
    \A id \in Ids :
        (DeliveringTo("embed_inode", id) /\ id \in embedded) =>
            /\ "embeddings_request" \notin Range(last'.trace)
            /\ pages' = pages
            /\ inodes[id].is_embedded
            /\ inodes'[id].is_embedded

\* C10: every embed run that repeats a successful one asks the provider
\* nothing and changes no page; is_embedded stays true.
C10_ReembedIsNoop == [][C10_ReembedStep]_vars

C10_Witness ==
    /\ last.again
    /\ ~last.raised
    /\ HasRow(1)
    /\ inodes[1].is_embedded
    /\ \E p \in PagesOf(pages, 1) : p.embedding # NoEmbedding

\* the latest delivery ran handler name on inode id and returned normally
Succeeded(name, id) ==
    Ran(name) /\ last.called[1].arg = id /\ ~last.raised /\ HasRow(id)

\* C11: after a successful embed run of inode 1, every Page row of the inode
\* with non-empty contents has an embedding, whatever the page window and
\* the Page rows ingest wrote.
C11_AllPagesEmbedded ==
    Succeeded("embed_inode", 1) =>
        \A p \in PagesOf(pages, 1) : Len(p.contents) > 0 => p.embedding # NoEmbedding

\* C12: every successful run of the embed handler publishes exactly one
\* index_inode event, for the inode it embedded.
C12_EmbedPublishesIndex ==
    (Ran("embed_inode") /\ ~last.raised) =>
        last.out = <<Task("index_inode", After(last.called[1].arg))>>

C12_Witness ==
    /\ Succeeded("embed_inode", 1)
    /\ inodes[1].is_embedded
    /\ last.out = <<Task("index_inode", After(1))>>
    /\ Head(queue) = Task("index_inode", After(1))

\* n times the call name
Times(n, name) == [i \in 1..n |-> name]

\* C13 on one step: an index run in which a search-store request fails
\* raises; a run that raises commits nothing, leaves the rows as they were
\* and publishes nothing; a run that returns has made every upsert before
\* its commit and has set is_indexed.
C13_IndexStep ==
    \A id \in Ids :
        DeliveringTo("index_inode", id) =>
            LET sel == index_selection(inodes[id])
                fails == \/ "search" \in last'.faults
                         \/ ("search_page" \in last'.faults /\ sel # {})
            IN  /\ fails => last'.raised
                /\ last'.raised =>
                      /\ inodes' = inodes
                      /\ pages' = pages
                      /\ "commit" \notin Range(last'.trace)
                      /\ last'.notes = <<>>
                      /\ last'.out = <<>>
                /\ ~last'.raised =>
                      /\ inodes'[id].is_indexed
                      /\ last'.trace = <<"select_inode", "select_pages">>
                             \o Times(1 + Cardinality(sel), "index_document")
                             \o <<"commit">>
                      /\ ParentDocId(id) \in DOMAIN search'
                      /\ \A p \in sel : PageDocId(id, p.index) \in DOMAIN search'

\* C13: the index handler sets is_indexed only after every search-store
\* upsert of the run succeeded; when a request fails it re-raises, commits
\* nothing, leaves is_indexed unchanged and publishes no notification.
C13_IndexedOnlyAfterUpserts == [][C13_IndexStep]_vars

C13_Witness ==
    /\ Ran("index_inode")
    /\ last.called[1].arg = 1
    /\ "search_page" \in last.faults
    /\ last.raised
    /\ HasRow(1)
    /\ ~inodes[1].is_indexed
    /\ ParentDocId(1) \in DOMAIN search
    /\ last.notes = <<>>

\* the latest delivery ran the index handler on inode 1, whose row exists,
\* and the search store accepted every request
IndexRanAccepted ==
    Ran("index_inode") /\ last.called[1].arg = 1 /\ HasRow(1) /\ last.faults = {}

\* inode 1 is ingested and has a page with contents and no embedding
IngestedNotEmbedded ==
    /\ inodes[1].is_ingested
    /\ \E p \in PagesOf(pages, 1) : Len(p.contents) > 0 /\ p.embedding = NoEmbedding

\* C14: an index run on an inode that is errored, or that is ingested with
\* non-empty pages whose embeddings are still null, upserts the search
\* document and sets is_indexed, when the search store accepts the requests.
C14_IndexInAnyState ==
    (IndexRanAccepted /\ (inodes[1].error # NoError \/ IngestedNotEmbedded)) =>
        /\ ~last.raised
        /\ inodes[1].is_indexed
        /\ ParentDocId(1) \in DOMAIN search

\* the page documents the search index holds for inode id
PageDocsOf(id) == {d \in DOMAIN search : Len(d) = 2 /\ d[1] = id}

\* C15: after a successful index run of file inode 1, whatever ingest, embed
\* and index runs came before, the search index holds as many page records
\* for the inode as it has Page rows with non-empty contents.
C15_PageDocsMatchRows ==
    (Succeeded("index_inode", 1) /\ inodes[1].type = "file") =>
        Cardinality(PageDocsOf(1)) =
            Cardinality({p \in PagesOf(pages, 1) : Len(p.contents) > 0})

\* the latest delivery moved file inode 1 from the path it was stored with,
\* PathFileA, to its canonical path
Moved ==
    /\ Succeeded("move_inode", 1)
    /\ inodes[1].type = "file"
    /\ "copy_object" \in Range(last.trace)
    /\ inodes[1].path = canon[1]
    /\ canon[1] # PathFileA

\* C16: after the move handler succeeded on a file inode whose stored path
\* differed from the canonical path, no object is left at the original and
\* optimized keys of the old path, and both objects exist at the keys of the
\* new path.
C16_MovedObjects ==
    Moved =>
        /\ object_path(Owner, PathFileA) \notin DOMAIN objects
        /\ optimized_object_path(Owner, PathFileA) \notin DOMAIN objects
        /\ object_path(Owner, canon[1]) \in DOMAIN objects
        /\ optimized_object_path(Owner, canon[1]) \in DOMAIN objects

\* C17 on one step: a move run on an inode whose canonical path equals the
\* stored path copies and removes nothing, changes no row, commits nothing
\* and publishes nothing.
C17_NoopStep ==
    \A id \in Ids :
        (DeliveringTo("move_inode", id) /\ canon[id] = inodes[id].path) =>
            /\ UNCHANGED <<inodes, pages, objects, search>>
            /\ last'.trace = <<"select_inode", "inode_path">>
            /\ last'.out = <<>>
            /\ last'.notes = <<>>
            /\ ~last'.raised
            /\ queue' = Tail(queue)

\* C17: when the canonical path equals the stored path the move handler is
\* a no-op: no object call, path and should_move unchanged, no commit and no
\* index_inode.
C17_MoveSamePathIsNoop == [][C17_NoopStep]_vars

C17_Witness ==
    /\ Succeeded("move_inode", 1)
    /\ inodes[1].path = canon[1]
    /\ last.trace = <<"select_inode", "inode_path">>
    /\ last.out = <<>>
    /\ object_path(Owner, inodes[1].path) \in DOMAIN objects

\* C18 on one step: a move run on an inode whose canonical path differs from
\* the stored one.  When it returns, the object calls were made (none for a
\* folder), then the row got the canonical path and should_move = false and
\* was committed, and one index_inode was published; when an object call
\* fails it raises with the row as it was, no commit and nothing published.
C18_MoveStep ==
    \A id \in Ids :
        (DeliveringTo("move_inode", id) /\ canon[id] # inodes[id].path) =>
            /\ (inodes[id].type = "file" /\ last'.faults # {}) => last'.raised
            /\ last'.raised =>
                  /\ inodes' = inodes
                  /\ "commit" \notin Range(last'.trace)
                  /\ last'.out = <<>>
            /\ ~last'.raised =>
                  /\ inodes'[id].path = canon[id]
                  /\ ~inodes'[id].should_move
                  /\ last'.trace = <<"select_inode", "inode_path">>
                        \o (IF inodes[id].type = "file"
                            THEN <<"copy_object", "remove_object",
                                   "copy_object", "remove_object">>
                            ELSE <<>>)
                        \o <<"commit">>
                  /\ inodes[id].type # "file" => objects' = objects
                  /\ last'.out = <<Task("index_inode", After(id))>>

\* C18: on a move with differing paths the row gets the canonical path and
\* should_move is cleared only after the object moves succeeded (a folder
\* has none), and exactly one index_inode is published, after the commit.
C18_PathAfterObjects == [][C18_MoveStep]_vars

C18_Witness ==
    /\ Moved
    /\ canon[1] = PathFileB
    /\ ~inodes[1].should_move
    /\ last.out = <<Task("index_inode", After(1))>>
    /\ optimized_object_path(Owner, PathFileB) \in DOMAIN objects

\* object key k exists and carries the tag is_public = b
Tagged(k, b) == k \in DOMAIN objects /\ objects[k].is_public = TagOf(b)

\* C19: a share run on a file inode, in whatever pipeline state, with the
\* object store accepting the requests, tags the original and the optimized
\* object with is_public = inode.is_public and then publishes exactly one
\* index_inode; on a folder it touches no object and publishes exactly one
\* index_inode.
C19_ShareInAnyState ==
    \A id \in Ids :
        (Ran("share_inode") /\ last.called[1].arg = id /\ HasRow(id)
            /\ last.faults = {}) =>
            /\ ~last.raised
            /\ last.out = <<Task("index_inode", After(id))>>
            /\ IF inodes[id].type = "file"
               THEN /\ Tagged(object_path(Owner, inodes[id].path), inodes[id].is_public)
                    /\ Tagged(optimized_object_path(Owner, inodes[id].path),
                              inodes[id].is_public)
               ELSE "set_object_tags" \notin Range(last.trace)

C20_DeleteStep ==
    (Delivering /\ Head(queue).key = "delete_inode"
        /\ Head(queue).body.kind = "before" /\ "remove_raise" \notin last'.faults) =>
        LET data == Head(queue).body
            keys == {object_path(data.owner_id, data.path),
                     optimized_object_path(data.owner_id, data.path)}
        IN  /\ ~last'.raised
            /\ last'.settle = <<"ack">>
            /\ last'.trace = IF data.type = "file"
                             THEN <<"remove_objects", "delete_document">>
                             ELSE <<"delete_document">>
            /\ IF data.type = "file" /\ "remove" \notin last'.faults
               THEN keys \cap DOMAIN objects' = {}
               ELSE objects' = objects
            /\ IF "search" \in last'.faults
               THEN search' = search
               ELSE /\ ParentDocId(data.id) \notin DOMAIN search'
                    /\ \A d \in DOMAIN search' : ~(Len(d) = 2 /\ d[1] = data.id)

C21_NotifyStep ==
    (Delivering /\ last'.notes # <<>>) =>
        /\ last'.called # <<>>
        /\ last'.called[1].name \in {"ingest_inode", "embed_inode", "index_inode"}
        /\ LET id == last'.called[1].arg
           IN  /\ \A n \in Range(last'.notes) : n.id = id
               /\ inodes'[id].exists
               /\ is_ready(inodes'[id]) \/ inodes'[id].error # NoError

\* C21: every user notification of the ingest, embed or index handler is
\* published for an inode that is ready or errored after the handler's
\* commit; none is published for an inode that is neither.
C21_NotifyOnlyTerminal == [][C21_NotifyStep]_vars

C21_Witness ==
    /\ Succeeded("index_inode", 1)
    /\ last.notes # <<>>
    /\ is_ready(inodes[1])
    /\ inodes[1].error = NoError

\* C22: an inode whose ingest ended with an input-data error has had exactly
\* one user notification published for it, by that ingest run, whatever
\* embed, index, move or share deliveries followed.
C22_ErroredNotifiedOnce ==
    \A id \in Ids :
        (HasRow(id) /\ inodes[id].error # NoError) => notified[id] = 1

\* C23 on one step: each notification a delivery publishes is on the user
\* exchange, is routed by is_public of the committed row of its inode, and
\* names the inode and the handler that ran.
C23_RoutingStep ==
    Delivering =>
        \A n \in Range(last'.notes) :
            /\ last'.called # <<>>
            /\ n.exchange = "user"
            /\ n.id = last'.called[1].arg
            /\ n.task = last'.called[1].name
            /\ n.routing_key = IF inodes'[n.id].is_public THEN <<"public">>
                               ELSE <<"user-", inodes'[n.id].owner_id>>

\* C23: every user notification goes to the user exchange with routing key
\* public when the inode is public and user-{owner_id} otherwise, and its
\* payload is the inode id and the name of the stage that published it.
C23_NotificationRouting == [][C23_RoutingStep]_vars

C23_Witness ==
    /\ Ran("ingest_inode")
    /\ HasRow(1)
    /\ inodes[1].is_public
    /\ last.notes = <<[exchange |-> "user", routing_key |-> <<"public">>,
                       id |-> 1, task |-> "ingest_inode"]>>

\* C24: every Page row that ingest has written for an inode has its index
\* inside the page window of the inode, from_page <= index < to_page,
\* whatever the window and the page count of the original PDF.
C24_PagesInWindow ==
    \A p \in pages :
        /\ HasRow(p.inode_id)
        /\ inodes[p.inode_id].from_page <= p.index
        /\ p.index < inodes[p.inode_id].to_page

\* this step is an ingest run, with no failing call, on an inode whose
\* latest ingest run returned with no failing call and read the same
\* original object at the same path
Reingesting(id) ==
    /\ DeliveringTo("ingest_inode", id)
    /\ last'.faults = {}
    /\ Snapshot(id) # <<>>
    /\ ingested[id] = Snapshot(id)

\* C25 on one step: the repeated ingest run returns, leaves the Page rows as
\* they were and leaves every object with the content it had.
C25_ReingestStep ==
    \A id \in Ids :
        Reingesting(id) =>
            /\ ~last'.raised
            /\ last'.trace[Len(last'.trace)] = "commit"
            /\ pages' = pages
            /\ DOMAIN objects' = DOMAIN objects
            /\ \A k \in DOMAIN objects : objects'[k].content = objects[k].content

\* C25: ingest_inode delivered again for an unchanged inode and original
\* object succeeds and leaves the same Page rows, with no duplicate, and the
\* same optimized object as the first delivery left.
C25_ReingestIdempotent == [][C25_ReingestStep]_vars

C25_Witness ==
    /\ Ran("ingest_inode")
    /\ last.reingest
    /\ ~last.raised
    /\ HasRow(1)
    /\ Cardinality(PagesOf(pages, 1)) = 2
    /\ \E p \in PagesOf(pages, 1) : p.embedding # NoEmbedding
    /\ optimized_object_path(Owner, inodes[1].path) \in DOMAIN objects

\* the position of the last "/" of a path
LastSlash(p) == Max({i \in 1..Len(p) : p[i] = "/"})

\* the places where the name of the file may end and its extension begin:
\* before a dot of the last segment that is not its first character, or at
\* the end of the path when there is none
NameEnds(p) ==
    LET dots == {i \in (LastSlash(p) + 2)..Len(p) : p[i] = "."}
    IN  IF dots = {} THEN {Len(p)} ELSE {d - 1 : d \in dots}

\* {parent(P)}/{name}_optimized{ext}, the name ending at position e
OptimizedAt(p, e) == SubSeq(p, 1, e) \o <<"_optimized">> \o SubSeq(p, e + 1, Len(p))

\* C26: for every owner O and file path P, a file under the root, a name
\* with several dots and a name without extension included, the original
\* key is users/{O}{P} and the optimized key is
\* users/{O}{parent(P)}/{name}_optimized{ext}, wherever of its dots the name
\* is taken to end.
C26_ObjectKeys ==
    probe.keys # <<>> =>
        /\ probe.keys[1] = <<"users/", probe.owner>> \o probe.path
        /\ \E e \in NameEnds(probe.path) :
              probe.keys[2] = <<"users/", probe.owner>> \o OptimizedAt(probe.path, e)

\* C27: in every reachable state an inode whose is_ready is true has no
\* error set.
C27_ReadyHasNoError ==
    \A id \in Ids :
        (HasRow(id) /\ is_ready(inodes[id])) => inodes[id].error = NoError

\* the pipeline flags and the error of a row
Flags(row) ==
    <<row.is_ingested, row.is_embedded, row.is_indexed, row.is_uploaded, row.error>>

\* C28 on one step: a delivery that runs the move, share or delete handler
\* deletes no row and leaves the flags and the error of every row as they
\* were, whether it returns or raises.
C28_FrameStep ==
    (/\ Delivering
     /\ last'.called # <<>>
     /\ last'.called[1].name \in {"move_inode", "share_inode", "delete_inode"}) =>
        \A id \in Ids :
            /\ inodes'[id].exists = inodes[id].exists
            /\ inodes[id].exists => Flags(inodes'[id]) = Flags(inodes[id])

\* C28: the move, share and delete handlers never change is_ingested,
\* is_embedded, is_indexed, is_uploaded or error of any inode, in whatever
\* pipeline state they run.
C28_FlagsUntouched == [][C28_FrameStep]_vars

C28_Witness ==
    /\ Moved
    /\ is_ready(inodes[1])
    /\ inodes[1].error = NoError

\* C29: publish_task and publish_user_notification never raise: each call
\* returns True when it published the message and False, having published
\* nothing, otherwise.
C29_PublishNeverRaises ==
    ms.result # "none" =>
        /\ ms.result \in {"True", "False"}
        /\ ms.result = "True" <=> ms.published

\* the calls of configure_index made so far
Configured == {i \in 1..Len(idx.log) : idx.log[i].op = "configure_index"}

\* C30: configure_index succeeds exactly when the store answers 200 or 400
\* with error type resource_already_exists_exception, and raises on any
\* other response; so every call the store answers itself succeeds, however
\* many came before, and the index exists after it.
C30_ConfigureIdempotent ==
    \A i \in Configured :
        LET e == idx.log[i]
        IN  /\ e.result \in {"True", "raised"}
            /\ e.result = "True" <=>
                  \/ e.response.status = 200
                  \/ /\ e.response.status = 400
                     /\ e.response.type = "resource_already_exists_exception"
            /\ ~e.failed => e.result = "True"
            /\ (~e.failed /\ i = Len(idx.log)) => idx.exists

C30_Witness ==
    /\ Len(idx.log) = 3
    /\ \A i \in 1..3 :
          idx.log[i].op = "configure_index" /\ idx.log[i].result = "True"
    /\ idx.log[1].response.status = 200
    /\ idx.log[3].response = Response(400, "resource_already_exists_exception")
    /\ idx.exists

\* the latest ingest run of inode 1 had no failing external call and read
\* an original on which the OCR child process crashes
OcrCrashed ==
    /\ HasRow(1)
    /\ ingested[1] # <<>>
    /\ ingested[1][1].content.damage = "ocr_crash"
    /\ ingested[1][1].path = inodes[1].path

\* C31: when the OCR child process fails, crashing or leaving no output
\* file, the ingest handler sets error = corrupted_file and uploads no
\* optimized object.
C31_OcrFailureIsCorrupted ==
    OcrCrashed =>
        /\ inodes[1].error = "corrupted_file"
        /\ optimized_object_path(Owner, inodes[1].path) \notin DOMAIN objects

C33_ErrorStep ==
    \A id \in Ids :
        (inodes[id].exists /\ inodes[id].error # NoError /\ inodes'[id].exists) =>
            inodes'[id].error # NoError

\* C33: once the error of an inode is set no handler clears it: a later
\* ingest run that passes every step, and every embed, index, move or share
\* run, leave it set.
C33_ErrorIsTerminal == [][C33_ErrorStep]_vars

C33_Witness ==
    /\ IngestRan
    /\ last.faults = {}
    /\ ~last.raised
    /\ "upsert_pages" \in Range(last.trace)
    /\ PagesOf(pages, 1) # {}
    /\ inodes[1].error # NoError

\* C34: for every owner and file path the key the optimized file is
\* uploaded to differs from the key of the original object, so that the
\* ingest handler never replaces the original.
C34_OptimizedKeyDiffers ==
    probe.keys # <<>> => probe.keys[2] # probe.keys[1]

\* C35: whenever a file inode is ready and has no error, its optimized
\* object exists at the key derived from the path of the inode.
C35_ReadyHasOptimized ==
    \A id \in Ids :
        (/\ HasRow(id)
         /\ inodes[id].type = "file"
         /\ is_ready(inodes[id])
         /\ inodes[id].error = NoError) =>
            optimized_object_path(inodes[id].owner_id, inodes[id].path)
                \in DOMAIN objects

\* the latest delivery ran the move handler on file inode 1 and it raised
\* after it had begun to move the objects
MoveFailed ==
    /\ Ran("move_inode")
    /\ last.called[1].arg = 1
    /\ HasRow(1)
    /\ inodes[1].type = "file"
    /\ last.raised
    /\ "copy_object" \in Range(last.trace)

\* C36: when the move handler fails part-way on a file inode, the original
\* object still exists at the key derived from the path stored in the row.
C36_FailedMoveKeepsOriginal ==
    MoveFailed => object_path(Owner, inodes[1].path) \in DOMAIN objects

\* every message has been processed: the queue is empty, no handler runs
RaceDone ==
    /\ race.w # <<>>
    /\ race.queue = <<>>
    /\ \A w \in Workers : race.w[w].pc = "idle"

\* C37: with several worker processes, once every message of the inode is
\* processed, path and is_public of its search document equal path and
\* is_public of its row.
C37_DocumentMatchesRow ==
    (RaceDone /\ race.doc # <<>>) =>
        /\ race.doc[1].path = race.row.path
        /\ race.doc[1].is_public = race.row.is_public

\* the objects of the inode that are stored under the keys of path p
ObjectsUnder(p) ==
    {object_path(Owner, p), optimized_object_path(Owner, p)} \cap DOMAIN race.objs

\* C38: with several worker processes, once an ingest run and a move run of
\* the same file are both over (the row is ingested and carries the new
\* path), the optimized object is stored under the key of the row's path and
\* no object of the inode is left under the old path.
C38_ObjectsFollowRow ==
    (RaceDone /\ race.row.is_ingested /\ race.row.path = PathFileB) =>
        /\ optimized_object_path(Owner, race.row.path) \in DOMAIN race.objs
        /\ ObjectsUnder(PathFileA) = {}

\* the flag a handler of the pipeline commits
OwnFlag(row, handler) ==
    CASE handler = "ingest_inode" -> row.is_ingested
      [] handler = "embed_inode" -> row.is_embedded
      [] handler = "index_inode" -> row.is_indexed

\* the latest delivery ran handler h and published a task event or a user
\* notification
Published(h) ==
    /\ Ran(h)
    /\ last.out # <<>> \/ last.notes # <<>>

C39_FailedEmbedStoresNothing ==
    emb.raised =>
        /\ emb.stored = {}
        /\ emb.session = {}
        /\ emb.row.is_embedded = emb.before
        /\ emb.out = <<>>
        /\ emb.notes = <<>>

\* the third batch failed after two batches were answered and assigned
C39_Witness ==
    /\ emb.raised
    /\ emb.n > 2 * BatchSize
    /\ emb.assigned = 2 * BatchSize
    /\ ~emb.before

====
